---- MODULE Spec2Model ----
(***************************************************************************)
(* Model of relayer/src/chain/cosmos/wait.rs: wait_for_block_commits polls *)
(* the chain for the results of a slice of broadcast transactions until    *)
(* every TxSyncResult is ReceivedResponse or rpc_timeout has elapsed.      *)
(*                                                                         *)
(* Time is counted in units of 150 ms.  The clock advances only in         *)
(* thread::sleep (by exactly WAIT_BACKOFF) and in a chain query (by the    *)
(* duration the collaborator takes); the code between them takes no time.  *)
(***************************************************************************)
EXTENDS Integers, Sequences, FiniteSets, TLC

\* ------------------------------------------------------------------ bounds
MaxRecords   == 2   \* length of tx_sync_results
MaxMsgCount  == 2   \* message_count of a Pending record
MaxTimeout   == 4   \* rpc_timeout, in units of 150 ms
MaxQueryDur  == 1   \* duration of one chain query, in units of 150 ms
MaxHeight    == 1   \* response.height
MaxRawEvents == 2   \* number of raw events in a response
MaxVersion   == 1   \* chain_id.version()

\* ------------------------------------------------------- program constants
WAIT_BACKOFF == 2   \* Duration::from_millis(300), in units of 150 ms

\* --------------------------------------------------------------- data model
\* (the fields of every record are written in the order in which TLC keeps them, so
\* that values shared by its workers are never reordered while they are read)
\* TxStatus
Pending(message_count) == [message_count |-> message_count, tag |-> "Pending"]
ReceivedResponse == [tag |-> "ReceivedResponse"]

IsPending(status) == status.tag = "Pending"

\* the hash of the i-th broadcast transaction
HashOf(i) == IF i = 1 THEN "hashA" ELSE IF i = 2 THEN "hashB" ELSE "hashC"

\* IbcEvent::ChainError(format!("deliver_tx for {} reports error: code={:?}, log={:?}", ..))
\* the formatted string is determined by, and determines, the three arguments
ChainError(hash, code, log) == [kind |-> "ChainError", msg |-> <<hash, code, log>>]

\* an event a record may already carry when the call starts
OldEvent == ChainError("hash0", 1, "old")

\* raw chain events of a tx response
RawEvents == {"raw0", "raw1", "raw2"}

\* sequences over S of length at most n
RECURSIVE SeqsUpTo(_, _)
SeqsUpTo(S, n) ==
    IF n = 0 THEN {<< >>}
    ELSE LET shorter == SeqsUpTo(S, n - 1)
         IN shorter \cup {Append(s, x) : s \in {t \in shorter : Len(t) = n - 1}, x \in S}

\* Height::new(revision_number, revision_height): a height of zero cannot be constructed
HeightNew(revision_number, revision_height) ==
    IF revision_height = 0
    THEN [ok |-> FALSE, height |-> <<revision_number, revision_height>>]
    ELSE [ok |-> TRUE, height |-> <<revision_number, revision_height>>]

\* from_tx_response_event(height, event): zero, one or several events per raw event
from_tx_response_event(height, event) ==
    IF event = "raw0" THEN << >>
    ELSE IF event = "raw1" THEN << [kind |-> "Decoded", msg |-> <<height, event, 1>>] >>
    ELSE << [kind |-> "Decoded", msg |-> <<height, event, 1>>],
            [kind |-> "Decoded", msg |-> <<height, event, 2>>] >>

\* a variant that collects the decoded events of the raw events back to front
RECURSIVE FlatMapEventsReversed(_, _)
FlatMapEventsReversed(height, events) ==
    IF events = << >> THEN << >>
    ELSE FlatMapEventsReversed(height, Tail(events)) \o from_tx_response_event(height, Head(events))

\* events.iter().flat_map(|event| from_tx_response_event(height, event)).collect()
RECURSIVE FlatMapEvents(_, _)
FlatMapEvents(height, events) ==
    IF events = << >> THEN << >>
    ELSE from_tx_response_event(height, Head(events)) \o FlatMapEvents(height, Tail(events))

\* vec![elem; n]
RECURSIVE VecRepeat(_, _)
VecRepeat(elem, n) == IF n = 0 THEN << >> ELSE <<elem>> \o VecRepeat(elem, n - 1)

\* ------------------------------------------------- the query collaborator
\* query_tx_response(rpc_client, rpc_address, hash): Err(_), Ok(None) or Ok(Some(response))
QueryErr  == [hash |-> "", code |-> 0, log |-> "", kind |-> "Err",  height |-> 0, events |-> << >>]
QueryNone == [hash |-> "", code |-> 0, log |-> "", kind |-> "None", height |-> 0, events |-> << >>]

QueryAnswers(hash) ==
    {QueryErr, QueryNone}
    \cup {[hash |-> hash, code |-> 0, log |-> "", kind |-> "Some", height |-> h, events |-> ev] :
            h \in 0..MaxHeight, ev \in SeqsUpTo(RawEvents, MaxRawEvents)}
    \cup {[hash |-> hash, code |-> 5, log |-> l, kind |-> "Some", height |-> h, events |-> << >>] :
            l \in {"out of gas", "unauthorized"}, h \in 0..MaxHeight}

\* the answers drawn while the whole loop is explored: a failing query, an unknown
\* transaction, an execution error, a successful execution, and a successful
\* execution whose height cannot be built
LoopAnswers(hash) ==
    {QueryErr, QueryNone,
     [hash |-> hash, code |-> 5, log |-> "out of gas", kind |-> "Some", height |-> 0, events |-> << >>],
     [hash |-> hash, code |-> 0, log |-> "", kind |-> "Some", height |-> MaxHeight,
      events |-> <<"raw2", "raw1">>],
     [hash |-> hash, code |-> 0, log |-> "", kind |-> "Some", height |-> 0, events |-> <<"raw1">>]}

\* what the chain may answer: any response, or one of the few of LoopAnswers
Answers(any, hash) == IF any THEN QueryAnswers(hash) ELSE LoopAnswers(hash)

\* response.tx_result.code.is_err()
CodeIsErr(code) == code # 0

\* ------------------------------------------------------------------- state
VARIABLES
    records,        \* tx_sync_results: sequence of [status, hash, events]
    chain_version,  \* chain_id.version()
    rpc_timeout,    \* rpc_timeout
    now,            \* the clock; start_time is 0, so start_time.elapsed() = now
    pc,             \* "loop" (line 42), "refresh" (line 58) or "done" (returned or unwound)
    idx,            \* position of the iter_mut() of line 58
    result,         \* "none", "Ok", "TxNoConfirmation" or "Panic"
    \* history, never read by the program
    entry,          \* tx_sync_results as passed by the caller
    passes,         \* refresh passes started
    roundDur,       \* time spent in the queries of the current (or last) pass
    outcome,        \* per record, what the current (or last) pass did: "-", "Skip", "Err", "None", "Some"
    prevOutcome,    \* outcome of the pass before
    last,           \* the last call of update_tx_sync_result: record index, answer, record before, return, pass
    resolvedIn,     \* per record, the pass that made it ReceivedResponse (0: none)
    resolvedEvents, \* per record, the events stored by that pass
    transitions,    \* per record, how often its status went Pending -> ReceivedResponse
    allErr,         \* per record, whether every query for it so far failed
    sleeps,         \* calls of thread::sleep that have returned
    queries,        \* per record, calls of query_tx_response made for it
    passQueries,    \* per record, those made in the current (or last) pass
    pendingAtStart  \* the records that were Pending when the current (or last) pass began

prog == <<records, chain_version, rpc_timeout, now, pc, idx, result>>
hist == <<entry, passes, roundDur, outcome, prevOutcome, last, resolvedIn, resolvedEvents, transitions, allErr,
          sleeps, queries, passQueries, pendingAtStart>>
vars == <<prog, hist>>

Indices == 1..Len(records)

\* ------------------------------------------------------------- the program
\* a variant that is content with one ReceivedResponse record (any for all)
any_tx_result_found(tx_sync_results) ==
    \E i \in 1..Len(tx_sync_results) : tx_sync_results[i].status = ReceivedResponse

\* fn all_tx_results_found
all_tx_results_found(tx_sync_results) ==
    \A i \in 1..Len(tx_sync_results) : tx_sync_results[i].status = ReceivedResponse

\* a variant that times out as soon as the timeout is reached (>= for >)
LoopDecisionAtTimeout(tx_sync_results, elapsed, timeout) ==
    IF all_tx_results_found(tx_sync_results) THEN "Ok"
    ELSE IF elapsed >= timeout THEN "TxNoConfirmation"
    ELSE "Continue"

\* a variant that grants one more backoff interval before it times out
LoopDecisionLate(tx_sync_results, elapsed, timeout) ==
    IF all_tx_results_found(tx_sync_results) THEN "Ok"
    ELSE IF elapsed > timeout + WAIT_BACKOFF THEN "TxNoConfirmation"
    ELSE "Continue"

\* a variant that gives up silently: Ok once the timeout has elapsed
LoopDecisionOkOnTimeout(tx_sync_results, elapsed, timeout) ==
    IF all_tx_results_found(tx_sync_results) THEN "Ok"
    ELSE IF elapsed > timeout THEN "Ok"
    ELSE "Continue"

\* a variant that tests the timeout before it looks at the records
LoopDecisionTimeoutFirst(tx_sync_results, elapsed, timeout) ==
    IF elapsed > timeout THEN "TxNoConfirmation"
    ELSE IF all_tx_results_found(tx_sync_results) THEN "Ok"
    ELSE "Continue"

\* the if / else if / else of the loop body
LoopDecision(tx_sync_results, elapsed, timeout) ==
    IF all_tx_results_found(tx_sync_results) THEN "Ok"
    ELSE IF elapsed > timeout THEN "TxNoConfirmation"
    ELSE "Continue"

\* a variant that stores one error event whatever message_count is
ErrorEventsOnce(response, message_count) ==
    <<ChainError(response.hash, response.code, response.log)>>

\* lines 81-87: vec![IbcEvent::ChainError(format!(.., response.hash, code, log)); message_count]
ErrorEvents(response, message_count) ==
    VecRepeat(ChainError(response.hash, response.code, response.log), message_count)

\* a variant that returns the failure of Height::new with `?`
UnwrapHeightQuestionMark(height) ==
    IF height.ok THEN "Ok" ELSE "Err"

\* line 89: `.unwrap()` of the Result of Height::new
UnwrapHeight(height) ==
    IF height.ok THEN "Ok" ELSE "Panic"

\* a variant that extends the vector instead of assigning it
StoreEventsExtend(old, new) == old \o new

\* lines 81 and 91: `tx_sync_result.events = ..` assigns the vector
StoreEvents(old, new) == new

\* lines 78-97: the chain knows the transaction
ApplyResponse(version, tx_sync_result, response) ==
    LET received == [tx_sync_result EXCEPT !.status = ReceivedResponse] IN
    IF CodeIsErr(response.code)
    THEN [rec |-> [received EXCEPT !.events =
                      StoreEvents(@, ErrorEvents(response, tx_sync_result.status.message_count))],
          ret |-> "Ok"]
    ELSE LET height == HeightNew(version, response.height) IN
         IF UnwrapHeight(height) # "Ok"
         THEN [rec |-> received, ret |-> UnwrapHeight(height)]
         ELSE [rec |-> [received EXCEPT !.events =
                           StoreEvents(@, FlatMapEvents(height.height, response.events))],
               ret |-> "Ok"]

\* a variant that sets the status before the query is made
UpdatePendingStatusFirst(version, tx_sync_result, q) ==
    IF q.kind = "Err"
    THEN [rec |-> [tx_sync_result EXCEPT !.status = ReceivedResponse], ret |-> "Err"]
    ELSE IF q.kind = "None"
    THEN [rec |-> [tx_sync_result EXCEPT !.status = ReceivedResponse], ret |-> "Ok"]
    ELSE ApplyResponse(version, tx_sync_result, q)

\* a variant that takes a transaction whose execution failed for a failed query
UpdatePendingChainErrorFails(version, tx_sync_result, q) ==
    IF q.kind = "Err" THEN [rec |-> tx_sync_result, ret |-> "Err"]
    ELSE IF q.kind = "None" THEN [rec |-> tx_sync_result, ret |-> "Ok"]
    ELSE IF CodeIsErr(q.code) THEN [rec |-> tx_sync_result, ret |-> "Err"]
    ELSE ApplyResponse(version, tx_sync_result, q)

\* a variant that notes in the events that the chain does not know the transaction yet
UpdatePendingNotesNotFound(version, tx_sync_result, q) ==
    IF q.kind = "Err" THEN [rec |-> tx_sync_result, ret |-> "Err"]
    ELSE IF q.kind = "None"
    THEN [rec |-> [tx_sync_result EXCEPT !.events =
                      <<ChainError(tx_sync_result.hash, 0, "not found")>>],
          ret |-> "Ok"]
    ELSE ApplyResponse(version, tx_sync_result, q)

\* lines 74-98: a Pending record, q being the answer of query_tx_response
\* (`?` returns the query's error, None leaves the record alone)
UpdatePending(version, tx_sync_result, q) ==
    IF q.kind = "Err" THEN [rec |-> tx_sync_result, ret |-> "Err"]
    ELSE IF q.kind = "None" THEN [rec |-> tx_sync_result, ret |-> "Ok"]
    ELSE ApplyResponse(version, tx_sync_result, q)

\* a variant that puts a ReceivedResponse record back to Pending when the chain
\* no longer knows the transaction
update_tx_sync_result_reverting(version, tx_sync_result, q) ==
    IF IsPending(tx_sync_result.status)
    THEN LET u == UpdatePending(version, tx_sync_result, q)
         IN [rec |-> u.rec, ret |-> u.ret, queried |-> TRUE]
    ELSE IF q.kind = "None"
    THEN [rec |-> [tx_sync_result EXCEPT !.status = Pending(1)], ret |-> "Ok",
          queried |-> TRUE]
    ELSE [rec |-> tx_sync_result, ret |-> "Ok", queried |-> TRUE]

\* a variant without the `if let TxStatus::Pending` guard: every record is queried
update_tx_sync_result_unguarded(version, tx_sync_result, q) ==
    IF IsPending(tx_sync_result.status)
    THEN LET u == UpdatePending(version, tx_sync_result, q)
         IN [rec |-> u.rec, ret |-> u.ret, queried |-> TRUE]
    ELSE LET r == UpdatePending(version, [tx_sync_result EXCEPT !.status = Pending(1)], q)
         IN [rec |-> IF q.kind = "Some" THEN r.rec ELSE tx_sync_result, ret |-> r.ret,
             queried |-> TRUE]

\* async fn update_tx_sync_result: the record it leaves behind, how it returns
\* ("Ok", "Err", or "Panic" when it unwinds) and whether it called query_tx_response
update_tx_sync_result(version, tx_sync_result, q) ==
    IF IsPending(tx_sync_result.status)
    THEN LET u == UpdatePending(version, tx_sync_result, q)
         IN [rec |-> u.rec, ret |-> u.ret, queried |-> TRUE]
    ELSE [rec |-> tx_sync_result, ret |-> "Ok", queried |-> FALSE]

\* a variant that keeps the ReceivedResponse records in front: a record that has
\* just been resolved changes places with the first one
IterMutResolvedFirst(tx_sync_results, i, tx_sync_result) ==
    IF IsPending(tx_sync_results[i].status) /\ ~IsPending(tx_sync_result.status)
    THEN [[tx_sync_results EXCEPT ![i] = tx_sync_results[1]] EXCEPT ![1] = tx_sync_result]
    ELSE [tx_sync_results EXCEPT ![i] = tx_sync_result]

\* line 58: iter_mut() hands update_tx_sync_result the i-th element of the slice and
\* nothing else; the slice after the call wrote through that reference
IterMut(tx_sync_results, i, tx_sync_result) ==
    [tx_sync_results EXCEPT ![i] = tx_sync_result]

\* a variant that returns the error of update_tx_sync_result with `?`
PropagateError(ret) ==
    IF ret = "Panic" THEN "Unwind" ELSE IF ret = "Err" THEN "Return" ELSE "NextRecord"

\* `let _ = update_tx_sync_result(..).await;`: what the loop does with the outcome
IgnoreError(ret) ==
    IF ret = "Panic" THEN "Unwind" ELSE "NextRecord"

\* -------------------------------------------------------------------- Init
\* the records a caller may pass: Pending or ReceivedResponse, with or without events
AnyRecords(i) ==
    {[status |-> st, hash |-> HashOf(i), events |-> ev] :
        st \in {Pending(k) : k \in 1..MaxMsgCount} \cup {ReceivedResponse},
        ev \in {<< >>, <<OldEvent>>}}

\* the records drawn while the whole loop is explored: Pending without events (the
\* first record also with an event), or ReceivedResponse with an event
EntryRecords(i) ==
    {[status |-> Pending(MaxMsgCount), hash |-> HashOf(i), events |-> << >>],
     [status |-> ReceivedResponse, hash |-> HashOf(i), events |-> <<OldEvent>>]}
    \cup {[status |-> Pending(MaxMsgCount), hash |-> HashOf(i), events |-> <<OldEvent>>] :
             j \in {i} \cap {1}}

EntrySlices ==
    UNION {{s \in [1..n -> UNION {EntryRecords(i) : i \in 1..n}] :
              \A i \in 1..n : s[i] \in EntryRecords(i)} : n \in 1..MaxRecords}

\* one record of any kind, alone or followed by a ReceivedResponse record
UpdateSlices ==
    {<<r>> : r \in AnyRecords(1)}
    \cup {<<r, [status |-> ReceivedResponse, hash |-> HashOf(2), events |-> << >>]>> :
             r \in AnyRecords(1)}

NoCall == [i |-> 0, ret |-> "Ok", q |-> QueryNone,
           queried |-> FALSE,
           before |-> [status |-> ReceivedResponse, hash |-> "", events |-> << >>],
           pass |-> 0]

\* the state at line 41 of a call with these arguments
Start(slices, versions, timeouts) ==
    /\ records \in slices
    /\ chain_version \in versions
    /\ rpc_timeout \in timeouts
    /\ now = 0
    /\ pc = "loop"
    /\ idx = 0
    /\ result = "none"
    /\ entry = records
    /\ passes = 0
    /\ roundDur = 0
    /\ outcome = [i \in Indices |-> "-"]
    /\ prevOutcome = [i \in Indices |-> "-"]
    /\ last = NoCall
    /\ resolvedIn = [i \in Indices |-> 0]
    /\ resolvedEvents = [i \in Indices |-> << >>]
    /\ transitions = [i \in Indices |-> 0]
    /\ allErr = [i \in Indices |-> TRUE]
    /\ sleeps = 0
    /\ queries = [i \in Indices |-> 0]
    /\ passQueries = [i \in Indices |-> 0]
    /\ pendingAtStart = {}

Init == Start(EntrySlices, {MaxVersion}, 0..MaxTimeout)

\* calls that make one pass, on any record, in any chain version
UpdateInit == Start(UpdateSlices, 0..MaxVersion, {0})

\* ----------------------------------------------------------------- actions
\* lines 42-52: every record is ReceivedResponse, return Ok(())
ReturnOk ==
    /\ pc = "loop"
    /\ LoopDecision(records, now, rpc_timeout) = "Ok"
    /\ pc' = "done"
    /\ result' = "Ok"
    /\ UNCHANGED <<records, chain_version, rpc_timeout, now, idx, hist>>

\* lines 53-54: return Err(Error::tx_no_confirmation())
ReturnTimeout ==
    /\ pc = "loop"
    /\ LoopDecision(records, now, rpc_timeout) = "TxNoConfirmation"
    /\ pc' = "done"
    /\ result' = "TxNoConfirmation"
    /\ UNCHANGED <<records, chain_version, rpc_timeout, now, idx, hist>>

\* a variant that starts the pass without sleeping
BackoffNoSleep ==
    /\ pc = "loop"
    /\ LoopDecision(records, now, rpc_timeout) = "Continue"
    /\ now' = now
    /\ pc' = "refresh"
    /\ idx' = 1
    /\ passes' = passes + 1
    /\ roundDur' = 0
    /\ prevOutcome' = outcome
    /\ outcome' = [i \in Indices |-> "-"]
    /\ passQueries' = [i \in Indices |-> 0]
    /\ pendingAtStart' = {i \in Indices : IsPending(records[i].status)}
    /\ UNCHANGED <<records, chain_version, rpc_timeout, result,
                   entry, last, resolvedIn, resolvedEvents, transitions, allErr, queries, sleeps>>

\* lines 55-58: thread::sleep(WAIT_BACKOFF), then start iterating over the records
Backoff ==
    /\ pc = "loop"
    /\ LoopDecision(records, now, rpc_timeout) = "Continue"
    /\ now' = now + WAIT_BACKOFF
    /\ pc' = "refresh"
    /\ idx' = 1
    /\ passes' = passes + 1
    /\ roundDur' = 0
    /\ prevOutcome' = outcome
    /\ outcome' = [i \in Indices |-> "-"]
    /\ sleeps' = sleeps + 1
    /\ passQueries' = [i \in Indices |-> 0]
    /\ pendingAtStart' = {i \in Indices : IsPending(records[i].status)}
    /\ UNCHANGED <<records, chain_version, rpc_timeout, result,
                   entry, last, resolvedIn, resolvedEvents, transitions, allErr, queries>>

\* lines 58-62 for the record at idx, with q the answer a query gets and d the time it takes
Refresh(q, d) ==
    LET before  == records[idx]
        r       == update_tx_sync_result(chain_version, before, q)
        queried == r.queried
        nowR    == IsPending(before.status) /\ ~IsPending(r.rec.status)
    IN
    /\ pc = "refresh"
    /\ records' = IterMut(records, idx, r.rec)
    /\ now' = IF queried THEN now + d ELSE now
    /\ roundDur' = IF queried THEN roundDur + d ELSE roundDur
    /\ outcome' = [outcome EXCEPT ![idx] = IF queried THEN q.kind ELSE "Skip"]
    /\ last' = [i |-> idx, ret |-> r.ret, q |-> IF queried THEN q ELSE QueryNone,
                queried |-> queried, before |-> before, pass |-> passes]
    /\ resolvedIn' = IF nowR THEN [resolvedIn EXCEPT ![idx] = passes] ELSE resolvedIn
    /\ resolvedEvents' = IF nowR THEN [resolvedEvents EXCEPT ![idx] = r.rec.events]
                         ELSE resolvedEvents
    /\ transitions' = IF nowR THEN [transitions EXCEPT ![idx] = @ + 1] ELSE transitions
    /\ allErr' = IF queried /\ q.kind # "Err" THEN [allErr EXCEPT ![idx] = FALSE] ELSE allErr
    /\ queries' = IF queried THEN [queries EXCEPT ![idx] = @ + 1] ELSE queries
    /\ passQueries' = IF queried THEN [passQueries EXCEPT ![idx] = @ + 1] ELSE passQueries
    /\ IF IgnoreError(r.ret) = "Unwind"
       THEN pc' = "done" /\ result' = "Panic" /\ idx' = idx
       ELSE IF IgnoreError(r.ret) = "Return"
       THEN pc' = "done" /\ result' = "QueryError" /\ idx' = idx
       ELSE /\ result' = result
            /\ IF idx < Len(records)
               THEN pc' = "refresh" /\ idx' = idx + 1
               ELSE pc' = "loop" /\ idx' = idx
    /\ UNCHANGED <<chain_version, rpc_timeout, entry, passes, prevOutcome, sleeps, pendingAtStart>>

\* a Pending record: update_tx_sync_result queries the chain, which gives one of
\* Answers(any, hash)
RefreshPending(any) ==
    /\ pc = "refresh"
    /\ IsPending(records[idx].status)
    /\ \E q \in Answers(any, records[idx].hash), d \in 0..MaxQueryDur : Refresh(q, d)

\* a ReceivedResponse record: update_tx_sync_result returns at once
RefreshResolved(any) ==
    /\ pc = "refresh"
    /\ ~IsPending(records[idx].status)
    /\ \E q \in Answers(any, records[idx].hash) : Refresh(q, 0)

Next ==
    \/ ReturnOk
    \/ ReturnTimeout
    \/ Backoff
    \/ RefreshPending(FALSE)
    \/ RefreshResolved(FALSE)

Spec == Init /\ [][Next]_vars

\* the same loop, the chain answering with any response
UpdateNext ==
    \/ ReturnOk
    \/ ReturnTimeout
    \/ Backoff
    \/ RefreshPending(TRUE)
    \/ RefreshResolved(TRUE)

UpdateSpec == UpdateInit /\ [][UpdateNext]_vars

\* the call is one sequential thread of control: it always takes its next step
FairSpec == Spec /\ WF_vars(Next)

TypeOK ==
    /\ pc \in {"loop", "refresh", "done"}
    /\ result \in {"none", "Ok", "TxNoConfirmation", "Panic", "QueryError"}
    /\ Len(records) \in 1..MaxRecords
    /\ now \in Nat


\* -------------------------------------------------------------- properties
Resolved(i) == records[i].status.tag = "ReceivedResponse"
StillPending(i) == records[i].status.tag = "Pending"

\* the last call of update_tx_sync_result queried the chain and got this kind of answer
LastQueried(kind) == last.queried /\ last.q.kind = kind

\* C1: wait_for_block_commits returns Ok only in a state where every record is
\* ReceivedResponse; it never returns Ok while some record is Pending.
C1_OkOnlyWhenAllResolved ==
    result = "Ok" => (pc = "done" /\ \A i \in Indices : Resolved(i))

\* Ok is returned after a pass that resolved both records of a slice
C1_Witness ==
    /\ result = "Ok"
    /\ Len(records) = 2
    /\ \A i \in Indices : resolvedIn[i] >= 1

\* C2: the only error value the call returns is tx_no_confirmation, and it returns
\* it only at a loop check where the elapsed time strictly exceeds the timeout and
\* some record is still Pending.
C2_OnlyTimeoutError ==
    /\ result \in {"none", "Ok", "TxNoConfirmation", "Panic"}
    /\ result = "TxNoConfirmation" =>
          /\ pc = "done"
          /\ now > rpc_timeout
          /\ \E i \in Indices : StillPending(i)
          /\ passes >= 1 /\ idx = Len(records)
          /\ \A i \in Indices : outcome[i] # "-"

\* the timeout error is returned at the first check after the timeout: one tick late
C2_Witness ==
    /\ result = "TxNoConfirmation"
    /\ now = rpc_timeout + 1
    /\ \E i \in Indices : Resolved(i)

\* C3 as stated: the call ends with Ok or with the timeout error, no later than
\* timeout + one backoff interval + the duration of one query round after the start.
C3_EndsWithOkOrTimeout ==
    pc = "done" =>
        /\ result \in {"Ok", "TxNoConfirmation"}
        /\ now <= rpc_timeout + WAIT_BACKOFF + roundDur

\* C3, amended: the call terminates, with Ok (every record ReceivedResponse), with
\* the timeout error, or by the panic of the height construction, no later than
\* timeout + one backoff interval + the duration of the last query round.
C3_Terminates ==
    /\ <>(pc = "done")
    /\ [](pc = "done" =>
            /\ result \in {"Ok", "TxNoConfirmation", "Panic"}
            /\ result = "Ok" => \A i \in Indices : Resolved(i)
            /\ now <= rpc_timeout + WAIT_BACKOFF + roundDur)

\* the bound is reached: a timeout returned exactly timeout + backoff + round after
\* the start, the round having taken time
C3_Witness ==
    /\ pc = "done"
    /\ result = "TxNoConfirmation"
    /\ roundDur > 0
    /\ now = rpc_timeout + WAIT_BACKOFF + roundDur

\* C4: a record that is ReceivedResponse stays ReceivedResponse in every later
\* step, and a record goes from Pending to ReceivedResponse at most once.
C4_Monotonic ==
    [][\A i \in Indices :
          /\ records[i].status.tag = "ReceivedResponse"
                => records'[i].status.tag = "ReceivedResponse"
          /\ transitions'[i] <= 1]_vars

\* a record resolved by the first pass has been visited again by the second
C4_Witness ==
    /\ passes = 2
    /\ last.i >= 1
    /\ resolvedIn[last.i] = 1
    /\ outcome[last.i] = "Skip"
    /\ Resolved(last.i)

\* C5: when in one pass the query for record A fails and the query for record B
\* returns a result, B is ReceivedResponse and A is still Pending, whichever comes
\* first; a pass visits every record unless the panic of the height construction
\* cuts it short, and the next pass, when it comes to A, queries it again.
C5_PartialFailure ==
    /\ \A a, b \in Indices :
          (outcome[a] = "Err" /\ outcome[b] = "Some") => (StillPending(a) /\ Resolved(b))
    /\ \A a, b \in Indices :
          (prevOutcome[a] = "Err" /\ prevOutcome[b] = "Some") =>
              outcome[a] \in {"-", "Err", "None", "Some"}
    /\ (passes >= 1 /\ (pc = "loop" \/ (pc = "done" /\ result # "Panic"))) =>
          \A i \in Indices : outcome[i] # "-"

\* A (the second record) failed after B resolved, and was queried again in the next pass
C5_Witness ==
    /\ Len(records) = 2
    /\ passes = 2
    /\ prevOutcome[1] = "Some" /\ prevOutcome[2] = "Err"
    /\ outcome[2] \in {"Err", "None", "Some"}

\* C6: a query error on a Pending record leaves the record as it was (Pending, same
\* events), is not returned by the call, and the loop goes on with the next record
\* or the next check.
C6_ErrorAbsorbed ==
    LastQueried("Err") =>
        /\ records[last.i] = last.before
        /\ StillPending(last.i)
        /\ result \in {"none", "TxNoConfirmation"}
        /\ (result = "none" /\ last.pass = passes) =>
              \/ pc = "refresh" /\ idx = last.i + 1
              \/ pc = "loop" /\ last.i = Len(records)

\* the query of the first of two records failed and the loop is at the second
C6_Witness ==
    /\ LastQueried("Err")
    /\ pc = "refresh"
    /\ idx = 2
    /\ records[1].events # << >>

\* C7: an answer that reports an execution error makes a Pending record with
\* message_count = k ReceivedResponse with exactly k events, each the chain-error
\* event of the response's hash, code and log, whatever events it had before.
C7_ErrorEventCount ==
    (LastQueried("Some") /\ last.q.code # 0) =>
        LET k == last.before.status.message_count
            ev == records[last.i].events
        IN /\ Resolved(last.i)
           /\ Len(ev) = k
           /\ \A j \in 1..k :
                 ev[j] = [kind |-> "ChainError", msg |-> <<last.q.hash, last.q.code, last.q.log>>]

\* a record with message_count 2 and an old event got its two error events
C7_Witness ==
    /\ LastQueried("Some")
    /\ last.q.code # 0
    /\ last.before.status.message_count = 2
    /\ last.before.events # << >>
    /\ Len(records[last.i].events) = 2

\* the decoded events of raw events 1..n, built from the last raw event backwards
RECURSIVE DecodedUpTo(_, _, _)
DecodedUpTo(height, raw, n) ==
    IF n = 0 THEN << >>
    ELSE DecodedUpTo(height, raw, n - 1) \o from_tx_response_event(height, raw[n])

\* the last answer reported a successful execution at a height that can be built
LastDecoded ==
    /\ LastQueried("Some")
    /\ last.q.code = 0
    /\ last.ret = "Ok"

\* C8 as stated: the decoded events are appended to the record's events: afterwards
\* the events are the previous events followed by the decoded ones in raw order.
C8_EventsAppended ==
    LastDecoded =>
        records[last.i].events =
            last.before.events
              \o DecodedUpTo(<<chain_version, last.q.height>>, last.q.events, Len(last.q.events))

\* C8, amended: afterwards the record's events are exactly the decoded events
\* decode(H, e1) ++ .. ++ decode(H, en) in raw order, H built from the chain version
\* and the response's height; the previous events are replaced.
C8_EventsReplaced ==
    LastDecoded =>
        /\ Resolved(last.i)
        /\ records[last.i].events =
              DecodedUpTo(<<chain_version, last.q.height>>, last.q.events, Len(last.q.events))

\* raw2 (two events) before raw1 (one event), stored over an old event
C8_Witness ==
    /\ LastDecoded
    /\ last.q.events = <<"raw2", "raw1">>
    /\ last.before.events # << >>
    /\ Len(records[last.i].events) = 3

C10_HeightFault ==
    (LastQueried("Some") /\ last.q.code = 0 /\ last.q.height = 0) =>
        /\ pc = "done"
        /\ result = "Panic"
        /\ idx = last.i
        /\ records[last.i].events = last.before.events

\* the panic in the refresh of the first of two records: the second is not visited
C10_Witness ==
    /\ result = "Panic"
    /\ Len(records) = 2
    /\ last.i = 1
    /\ last.q.events # << >>
    /\ outcome[2] = "-"

\* C11: update_tx_sync_result on a record that is already ReceivedResponse is a
\* no-op: it issues no chain query (and so takes no time), leaves the status and
\* the events of every record as they are and reports no error, whatever the
\* chain would have answered.
C11_ResolvedNoOp ==
    [][(pc = "refresh" /\ records[idx].status = ReceivedResponse)
          => /\ records' = records
             /\ now' = now
             /\ last'.i = idx /\ ~last'.queried /\ last'.ret = "Ok"
             /\ result' = result
             /\ allErr' = allErr]_vars

\* a record that an earlier pass made ReceivedResponse with events is visited again
C11_Witness ==
    /\ last.i >= 1
    /\ ~last.queried
    /\ last.before.status = ReceivedResponse
    /\ last.before.events # << >>
    /\ resolvedIn[last.i] >= 1
    /\ last.pass > resolvedIn[last.i]

\* C12: throughout the call the slice keeps its length and its order and every
\* record keeps its hash; a step writes at most the status and the events of the
\* record being refreshed, and leaves every other record as it is.
C12_Frame ==
    [][/\ Len(records') = Len(records)
       /\ \A j \in Indices :
             /\ records'[j].hash = records[j].hash
             /\ DOMAIN records'[j] = {"status", "hash", "events"}
             /\ (pc # "refresh" \/ j # idx) => records'[j] = records[j]]_vars

\* the first of two records has been given a status and events by its refresh
\* while the second is as the caller passed it
C12_Witness ==
    /\ Len(records) = 2
    /\ last.i = 1
    /\ records[1].status # last.before.status
    /\ records[1].events # last.before.events
    /\ records[1].hash = HashOf(1)
    /\ records[2] = entry[2]
    /\ StillPending(2)

\* the first pass is over and gave every record it queried a response (the records
\* that came in ReceivedResponse were passed over)
FirstPassAllFound ==
    /\ passes = 1
    /\ pc # "refresh"
    /\ \A i \in Indices : outcome[i] \in {"Some", "Skip"}
    /\ \E i \in Indices : outcome[i] = "Some"

\* the last query was answered by a successful execution whose height cannot be built
LastHeightFault ==
    /\ LastQueried("Some")
    /\ ~CodeIsErr(last.q.code)
    /\ ~HeightNew(chain_version, last.q.height).ok

\* C13 as stated: when every query of the first pass returns a response, be it a
\* successful execution or an execution error, every record is ReceivedResponse,
\* the call returns Ok and it does so after that one pass (no second pass starts).
C13_AllFoundReturnsOk ==
    /\ FirstPassAllFound =>
          /\ \A i \in Indices : Resolved(i)
          /\ pc = "done" => result = "Ok"
    /\ passes >= 2 => \E i \in Indices : prevOutcome[i] \notin {"Some", "Skip"}

\* C13 amended: the same, provided the height of every successful execution can be
\* built (the response whose height cannot be built ends the call with a panic).
C13_AllFoundReturnsOkUnlessHeightFault ==
    /\ (FirstPassAllFound /\ ~LastHeightFault) =>
          /\ \A i \in Indices : Resolved(i)
          /\ pc = "done" => result = "Ok"
    /\ passes >= 2 => \E i \in Indices : prevOutcome[i] \notin {"Some", "Skip"}

\* Ok after one pass in which one transaction failed on chain and the other succeeded
C13_Witness ==
    /\ result = "Ok"
    /\ passes = 1
    /\ Len(records) = 2
    /\ \A i \in Indices : outcome[i] = "Some"
    /\ \E i \in Indices : records[i].events # << >> /\ records[i].events[1].kind = "ChainError"
    /\ \E i \in Indices : records[i].events # << >> /\ records[i].events[1].kind = "Decoded"

\* C14: check, then sleep, then query.  A pass starts only from a check that chose
\* to continue and with exactly one sleep of WAIT_BACKOFF in between; the call
\* sleeps nowhere else, so every pass has had its own sleep; a query is made only
\* within a pass, hence after the first sleep has returned; and after a check
\* that returned there is neither a sleep nor a query.
C14_CheckSleepQuery ==
    [][/\ (pc = "loop" /\ pc' = "refresh") =>
             /\ LoopDecision(records, now, rpc_timeout) = "Continue"
             /\ sleeps' = sleeps + 1
             /\ now' = now + WAIT_BACKOFF
             /\ queries' = queries
       /\ sleeps' # sleeps => (pc = "loop" /\ pc' = "refresh" /\ passes' = passes + 1)
       /\ sleeps' = passes'
       /\ queries' # queries =>
             (pc = "refresh" /\ result = "none" /\ sleeps >= 1 /\ now >= WAIT_BACKOFF)
       /\ result # "none" => (queries' = queries /\ sleeps' = sleeps)]_vars

\* a query made in the second pass, after two sleeps
C14_Witness ==
    /\ passes = 2
    /\ sleeps = 2
    /\ last.queried
    /\ last.pass = 2
    /\ queries[last.i] = 2
    /\ now >= 2 * WAIT_BACKOFF

\* the sum of f[1], .., f[n]
RECURSIVE SumTo(_, _)
SumTo(f, n) == IF n = 0 THEN 0 ELSE f[n] + SumTo(f, n - 1)

\* the records the current (or last) pass has visited: those before idx while the
\* pass is under way, those up to idx once it is over
Visited(i) ==
    /\ passes >= 1
    /\ IF pc = "refresh" THEN i < idx ELSE i <= idx

\* the current (or last) pass ran to its end
PassComplete ==
    /\ passes >= 1
    /\ pc = "loop" \/ result \in {"Ok", "TxNoConfirmation"}

\* C15: a pass visits the records one after the other in index order; it queries a
\* record that is Pending when visited exactly once and does not query a
\* ReceivedResponse record; a pass that ran to its end has visited every record
\* and has made as many queries as records were Pending when it began.
C15_OneQueryPerPending ==
    /\ \A i \in Indices :
          /\ Visited(i) => passQueries[i] = (IF i \in pendingAtStart THEN 1 ELSE 0)
          /\ ~Visited(i) => passQueries[i] = 0
          /\ ~Visited(i) => (StillPending(i) <=> (passes >= 1 /\ i \in pendingAtStart)
                                                  \/ (passes = 0 /\ IsPending(entry[i].status)))
    /\ (pc = "refresh" /\ idx > 1) => (last.i = idx - 1 /\ last.pass = passes)
    /\ pc = "refresh" => idx \in Indices
    /\ PassComplete =>
          /\ idx = Len(records)
          /\ SumTo(passQueries, Len(records)) = Cardinality(pendingAtStart)

\* the second pass over two records, one resolved by the first pass: one query
C15_Witness ==
    /\ PassComplete
    /\ passes = 2
    /\ Len(records) = 2
    /\ Cardinality(pendingAtStart) = 1
    /\ SumTo(passQueries, 2) = 1
    /\ SumTo(queries, 2) = 3

\* C16: a record that came in Pending with no events has no events for as long as
\* it is Pending; and the answer "not found" leaves the record Pending with the
\* events it had.
C16_EmptyUntilResolved ==
    /\ \A i \in Indices :
          (IsPending(entry[i].status) /\ entry[i].events = << >> /\ StillPending(i))
              => records[i].events = << >>
    /\ LastQueried("None") =>
          /\ StillPending(last.i)
          /\ records[last.i].events = last.before.events
          /\ last.ret = "Ok"

\* a record without events is Pending in its second pass, "not found" both times,
\* while the other record has been given events
C16_Witness ==
    /\ LastQueried("None")
    /\ last.pass = 2
    /\ queries[last.i] = 2
    /\ ~allErr[last.i]
    /\ records[last.i].events = << >>
    /\ \E j \in Indices : Resolved(j) /\ resolvedIn[j] = 1 /\ records[j].events # << >>

\* a record is Pending exactly as long as no query for it has returned a response
NeverFound(i) == IsPending(entry[i].status) /\ StillPending(i)

\* C17 as stated: when the chain never returns a response for some record (each
\* query for it fails or says "not found"), the call ends with the timeout error
\* and with nothing else, that record being Pending.
C17_NeverFoundTimesOut ==
    (pc = "done" /\ \E i \in Indices : NeverFound(i)) => result = "TxNoConfirmation"

\* C17 amended: such a call does end, and with the timeout error unless the panic
\* of a height that cannot be built ends it first; it never returns Ok.
C17_NeverFoundTimesOutOrPanics ==
    /\ [](pc = "done" /\ (\E i \in Indices : NeverFound(i))
             => result \in {"TxNoConfirmation", "Panic"})
    /\ <>(pc = "done")

\* the timeout error after three passes in which every query for the first record
\* failed and every query for the second said "not found"
C17_Witness ==
    /\ result = "TxNoConfirmation"
    /\ Len(records) = 2
    /\ NeverFound(1) /\ allErr[1] /\ queries[1] = 3
    /\ NeverFound(2) /\ outcome[2] = "None" /\ prevOutcome[2] = "None" /\ queries[2] = 3

\* C18: success has priority over the timeout.  The timeout error is returned only
\* while some record is Pending, however late the check comes; so a pass that
\* resolves the last record after the timeout has elapsed is followed by Ok.  A
\* slice that comes in with every record ReceivedResponse gets Ok at the first
\* check, with no sleep and no query, whatever the timeout.
C18_SuccessFirst ==
    /\ result = "TxNoConfirmation" => \E i \in Indices : StillPending(i)
    /\ (pc = "done" /\ result # "Panic" /\ \A i \in Indices : Resolved(i)) => result = "Ok"
    /\ (\A i \in Indices : ~IsPending(entry[i].status)) =>
          /\ pc # "refresh"
          /\ pc = "done" => result = "Ok"
          /\ sleeps = 0 /\ passes = 0 /\ now = 0
          /\ \A i \in Indices : queries[i] = 0
          /\ records = entry

\* Ok although the pass that resolved the last record ended after the timeout
C18_Witness ==
    /\ result = "Ok"
    /\ now > rpc_timeout
    /\ passes >= 2
    /\ \E i \in Indices : resolvedIn[i] = passes
    /\ \E i \in Indices : resolvedIn[i] = 1

\* C19: status and events change together.  In no state, the one a panic leaves
\* behind included, is a record that the last call of update_tx_sync_result made
\* ReceivedResponse without the events of its response: message_count chain-error
\* events for an execution error, the decoded events for a successful execution.
C19_StatusAndEventsTogether ==
    (last.i >= 1 /\ IsPending(last.before.status) /\ Resolved(last.i)) =>
        /\ LastQueried("Some")
        /\ \/ /\ CodeIsErr(last.q.code)
              /\ records[last.i].events =
                    VecRepeat(ChainError(last.q.hash, last.q.code, last.q.log),
                              last.before.status.message_count)
           \/ /\ ~CodeIsErr(last.q.code)
              /\ HeightNew(chain_version, last.q.height).ok
              /\ records[last.i].events =
                    DecodedUpTo(<<chain_version, last.q.height>>, last.q.events,
                                Len(last.q.events))

\* the state the panic leaves behind: the record is ReceivedResponse, its events are
\* the ones it had, and the response had a raw event to decode
C19_StatusWithoutEvents ==
    /\ result = "Panic"
    /\ LastHeightFault
    /\ Resolved(last.i)
    /\ IsPending(last.before.status)
    /\ records[last.i].events = last.before.events
    /\ last.q.events # << >>

\* floor(rpc_timeout / 300 ms) + 1
PassLimit == (rpc_timeout \div WAIT_BACKOFF) + 1

\* C20: a call makes at most floor(rpc_timeout / 300 ms) + 1 refresh passes, and so
\* queries each record at most that many times.
C20_PassesBoundedByTime ==
    /\ passes <= PassLimit
    /\ \A i \in Indices : queries[i] <= PassLimit

\* a timeout of 450 ms: the bound of two passes is reached, a record queried twice
C20_Witness ==
    /\ rpc_timeout = 3
    /\ passes = 2
    /\ result = "TxNoConfirmation"
    /\ \E i \in Indices : queries[i] = 2


====
